---- MODULE Spec2Model ----
(***************************************************************************)
(* The hospital-infection indicator extraction pipeline of build-exe:      *)
(* header location, grid normalisation, totals-row resolution, indicator   *)
(* resolution, per-file merge and ordered result assembly, for the three   *)
(* script variants (2extract_and_combine.py, 3extract_and_combine.py,      *)
(* 4extract_and_combine.py) and the GUI worker (medical_data_tool.py).     *)
(*                                                                         *)
(* Text is a sequence of Unicode code points, so that Python's substring   *)
(* test, str.replace and str.strip are computed and not assumed.  A cell   *)
(* of a worksheet is a record [t, v]: t = "nan" (missing), "str" (text, v  *)
(* its code points) or "num" (an integer, v = <<n>>).                      *)
(***************************************************************************)
EXTENDS Integers, Sequences, FiniteSets, TLC

(***************************************************************************)
(* Text constants of the configuration tables.                             *)
(***************************************************************************)
\* report types: the keys of FILE_PATTERNS / INDICATOR_MAP
FT_HuiZong == <<21307, 38498, 24863, 26579, 27719, 24635, 34920>>  \* 医院感染汇总表
FT_XianHuan == <<21307, 38498, 24863, 26579, 29616, 24739, 29575>>  \* 医院感染现患率
FT_ShouWeiSheng == <<25163, 21355, 29983, 20381, 20174, 27491, 30830, 29575>>  \* 手卫生依从正确率
FT_QieKou == <<73, 31867, 20999, 21475, 25163, 26415, 37096, 20301, 24863, 26579, 29575>>  \* I类切口手术部位感染率
FT_XueGuan == <<34880, 31649, 23548, 31649, 30456, 20851, 34880, 27969, 24863, 26579, 21457, 30149, 29575>>  \* 血管导管相关血流感染发病率
FT_HuXiJi == <<21628, 21560, 26426, 30456, 20851, 32954, 28814, 21457, 30149, 29575>>  \* 呼吸机相关肺炎发病率
FT_DaoNiaoGuan == <<23548, 23615, 31649, 30456, 20851, 27852, 23615, 36947, 24863, 26579, 21457, 30149, 29575>>  \* 导尿管相关泌尿道感染发病率

\* indicator fragments: the entries of INDICATOR_MAP
I_NewCases == <<26032, 21457, 24863, 26579, 20154, 25968>>  \* 新发感染人数
I_NewEpisodes == <<26032, 21457, 24863, 26579, 20363, 27425, 25968>>  \* 新发感染例次数
I_Inpatients == <<21516, 26399, 20303, 38498, 24739, 32773, 20154, 25968>>  \* 同期住院患者人数
I_Unreported == <<28431, 25253, 30149, 20363, 25968>>  \* 漏报病例数
I_Infected == <<24863, 26579, 20154, 25968>>  \* 感染人数
I_Episodes == <<24863, 26579, 20363, 27425, 25968>>  \* 感染例次数
I_PrevInpatients == <<29616, 24739, 29575, 45, 21516, 26399, 20303, 38498, 24739, 32773, 20154, 25968>>  \* 现患率-同期住院患者人数
I_HandActual == <<23454, 38469, 23454, 26045, 25163, 21355, 29983, 27425, 25968>>  \* 实际实施手卫生次数
I_HandDue == <<24212, 23454, 26045, 25163, 21355, 29983, 27425, 25968>>  \* 应实施手卫生次数
I_SsiEpisodes == <<8544, 31867, 25163, 26415, 37096, 20301, 24863, 26579, 20363, 27425, 25968>>  \* Ⅰ类手术部位感染例次数
I_SsiOps == <<8544, 31867, 25163, 26415, 20363, 25968>>  \* Ⅰ类手术例数
I_ClabsiEpisodes == <<34880, 31649, 23548, 31649, 30456, 20851, 34880, 27969, 24863, 26579, 20363, 27425, 25968>>  \* 血管导管相关血流感染例次数
I_CvcDays == <<20013, 24515, 38745, 33033, 25554, 31649, 20351, 29992, 22825, 25968>>  \* 中心静脉插管使用天数
I_VapEpisodes == <<21628, 21560, 26426, 30456, 20851, 32954, 28814, 24863, 26579, 20363, 27425, 25968>>  \* 呼吸机相关肺炎感染例次数
I_VentDays == <<21628, 21560, 26426, 20351, 29992, 22825, 25968>>  \* 呼吸机使用天数
I_CautiEpisodes == <<23548, 23615, 31649, 30456, 20851, 27852, 23615, 36947, 24863, 26579, 20363, 27425, 25968>>  \* 导尿管相关泌尿道感染例次数
I_CathDays == <<23548, 23615, 31649, 20351, 29992, 22825, 25968>>  \* 导尿管使用天数

\* canonical output names: the entries of INDICATOR_NAME_MAPPING's lists
N_NewCases == <<21307, 38498, 24863, 26579, 26032, 21457, 30149, 20363, 25968>>  \* 医院感染新发病例数
N_DueReports == <<21516, 26399, 24212, 25253, 21578, 21307, 38498, 24863, 26579, 30149, 20363, 24635, 25968>>  \* 同期应报告医院感染病例总数
N_NewEpisodes == <<21307, 38498, 24863, 26579, 26032, 21457, 20363, 27425, 25968>>  \* 医院感染新发例次数
N_Inpatients == <<21516, 26399, 20303, 38498, 24739, 32773, 20154, 25968>>  \* 同期住院患者人数
N_PrevInpatients == <<29616, 24739, 29575, 45, 21516, 26399, 20303, 38498, 24739, 32773, 24635, 25968>>  \* 现患率-同期住院患者总数
N_Infected == <<30830, 23450, 26102, 27573, 25110, 26102, 28857, 21307, 38498, 24863, 26579, 24739, 32773, 25968>>  \* 确定时段或时点医院感染患者数
N_Episodes == <<30830, 23450, 26102, 27573, 25110, 26102, 28857, 21307, 38498, 24863, 26579, 20363, 27425, 25968>>  \* 确定时段或时点医院感染例次数
N_Unreported == <<24212, 24403, 25253, 21578, 32780, 26410, 25253, 21578, 30340, 21307, 38498, 24863, 26579, 30149, 20363, 25968>>  \* 应当报告而未报告的医院感染病例数
N_HandActual == <<21463, 35843, 26597, 30340, 21307, 21153, 20154, 21592, 23454, 38469, 23454, 26045, 25163, 21355, 29983, 27425, 25968>>  \* 受调查的医务人员实际实施手卫生次数
N_HandDue == <<21516, 26399, 35843, 26597, 20013, 24212, 23454, 26045, 25163, 21355, 29983, 27425, 25968>>  \* 同期调查中应实施手卫生次数
N_SsiEpisodes == <<21457, 29983, 73, 31867, 20999, 21475, 25163, 26415, 37096, 20301, 24863, 26579, 30149, 20363, 25968>>  \* 发生I类切口手术部位感染病例数
N_SsiOps == <<21516, 26399, 25509, 21463, 73, 31867, 20999, 21475, 25163, 26415, 24739, 32773, 24635, 25968>>  \* 同期接受I类切口手术患者总数
N_ClabsiEpisodes == <<34880, 31649, 20869, 23548, 31649, 30456, 20851, 34880, 27969, 24863, 26579, 20363, 27425, 25968>>  \* 血管内导管相关血流感染例次数
N_CvcDays == <<21516, 26399, 24739, 32773, 20351, 29992, 34880, 31649, 20869, 23548, 31649, 30041, 32622, 24635, 22825, 25968>>  \* 同期患者使用血管内导管留置总天数
N_VapEpisodes == <<21628, 21560, 26426, 30456, 20851, 32954, 28814, 20363, 27425, 25968>>  \* 呼吸机相关肺炎例次数
N_VentDays == <<21516, 26399, 24739, 32773, 20351, 29992, 21628, 21560, 26426, 24635, 22825, 25968>>  \* 同期患者使用呼吸机总天数
N_CautiEpisodes == <<23548, 23615, 31649, 30456, 20851, 27852, 23615, 31995, 24863, 26579, 20363, 27425, 25968>>  \* 导尿管相关泌尿系感染例次数
N_CathDays == <<21516, 26399, 24739, 32773, 20351, 29992, 23548, 23615, 31649, 24635, 22825, 25968>>  \* 同期患者使用导尿管总天数

\* entity markers and totals patterns
M_KeShi == <<31185, 23460>>  \* 科室
M_QuanYuan == <<20840, 38498>>  \* 全院
M_HeJi == <<21512, 35745>>  \* 合计
M_ZongJi == <<24635, 35745>>  \* 总计
M_HuiZong == <<27719, 24635>>  \* 汇总
M_QuanYuanHeJi == <<20840, 38498, 21512, 35745>>  \* 全院合计

\* other text: the rename prefix implied by clean_dataframe's replace, str(nan),
\* and department / title text used in the worksheets below
X_NeiKe == <<20869, 31185>>  \* 内科
X_BaoBiao == <<25253, 34920>>  \* 报表
X_NaN == <<110, 97, 110>>  \* nan

(***************************************************************************)
(* Bounds of the model.                                                    *)
(***************************************************************************)
\* most rows of a worksheet drawn in SpecFile
MaxRows == 3
\* most files a scan finds in Spec
MaxFiles == 3
MaxFallbackRows == 2
MaxRuns == 1
MaxLogs == 1

(***************************************************************************)
(* Python and pandas primitives the code relies on.                        *)
(***************************************************************************)
\* a missing cell (NaN), a text cell, an integer cell
NaN == [t |-> "nan", v |-> <<>>]
Txt(s) == [t |-> "str", v |-> s]
Num(n) == [t |-> "num", v |-> <<n>>]

\* pd.isna / pd.notna
IsNa(c) == c.t = "nan"

\* Python's `t in s` on strings
Contains(s, t) ==
    \E i \in 0..(Len(s) - Len(t)) : SubSeq(s, i + 1, i + Len(t)) = t

\* any(x in s for x in fragments)
ContainsAny(s, fragments) ==
    \E k \in 1..Len(fragments) : Contains(s, fragments[k])

\* str(n) of a non-negative integer
RECURSIVE Digits(_)
Digits(n) == IF n < 10 THEN <<48 + n>> ELSE Digits(n \div 10) \o <<48 + (n % 10)>>

\* str(x) of a cell value
Str(c) == IF c.t = "nan" THEN X_NaN
          ELSE IF c.t = "num" THEN Digits(c.v[1])
          ELSE c.v

\* str.strip(): leading and trailing blanks removed
RECURSIVE Strip(_)
Strip(s) == IF s = <<>> THEN s
            ELSE IF Head(s) = 32 THEN Strip(Tail(s))
            ELSE IF s[Len(s)] = 32 THEN Strip(SubSeq(s, 1, Len(s) - 1))
            ELSE s

\* str.replace(old, new): every non-overlapping occurrence, left to right
RECURSIVE Replace(_, _, _)
Replace(s, old, new) ==
    IF Len(s) < Len(old) THEN s
    ELSE IF SubSeq(s, 1, Len(old)) = old
         THEN new \o Replace(SubSeq(s, Len(old) + 1, Len(s)), old, new)
         ELSE <<Head(s)>> \o Replace(Tail(s), old, new)

\* sep.join(strings) with sep = '|'
RECURSIVE Join(_)
Join(strings) ==
    IF strings = <<>> THEN <<>>
    ELSE IF Len(strings) = 1 THEN strings[1]
    ELSE strings[1] \o <<124>> \o Join(Tail(strings))

\* a faulty row string: only the first non-missing cell of the row
RowStr_FirstCell(row) ==
    LET kept == SelectSeq(row, LAMBDA x : ~IsNa(x))
    IN  IF kept = <<>> THEN <<>> ELSE Str(kept[1])

\* '|'.join([str(x) for x in row if pd.notna(x)])
RowStr(row) ==
    LET kept == SelectSeq(row, LAMBDA x : ~IsNa(x))
    IN  Join([k \in 1..Len(kept) |-> Str(kept[k])])

\* range(n) as the positions 1..n
Range(n) == [j \in 1..n |-> j]

\* the elements of s at the positions pos, in that order
Take(s, pos) == [k \in 1..Len(pos) |-> s[pos[k]]]

\* the columns of a frame selected by position
TakeColumns(df, pos) ==
    [columns |-> Take(df.columns, pos),
     rows    |-> [i \in 1..Len(df.rows) |-> Take(df.rows[i], pos)]]

\* a faulty row step: the row dropna left out
DropEmptyRows_None(df) == df

\* DataFrame.dropna(how='all'): rows whose cells are all missing are dropped
DropEmptyRows(df) ==
    [df EXCEPT !.rows =
        SelectSeq(df.rows, LAMBDA r : \E j \in 1..Len(r) : ~IsNa(r[j]))]

\* DataFrame.dropna(how='all', axis=1): columns missing in every row are dropped
\* (with no row left every column is)
DropEmptyColumns(df) ==
    TakeColumns(df, SelectSeq(Range(Len(df.columns)),
        LAMBDA j : \E i \in 1..Len(df.rows) : ~IsNa(df.rows[i][j])))

\* DataFrame.empty: some axis has length 0
IsEmpty(df) == Len(df.columns) = 0 \/ Len(df.rows) = 0

\* the number of columns carrying the label
LabelCount(df, label) == Cardinality({j \in 1..Len(df.columns) : df.columns[j] = label})

\* list.index(x): the first position holding x
IndexOf(s, x) == CHOOSE j \in 1..Len(s) : s[j] = x /\ \A k \in 1..(j - 1) : s[k] # x

\* the concatenation of a sequence of sequences
RECURSIVE Flatten(_)
Flatten(ss) == IF ss = <<>> THEN <<>> ELSE Head(ss) \o Flatten(Tail(ss))

\* df[cols] for a list of labels: for each requested label, in order, every
\* column carrying it (a label carried by several columns selects them all)
SelectLabels(df, cols) ==
    TakeColumns(df, Flatten([k \in 1..Len(cols) |->
        SelectSeq(Range(Len(df.columns)), LAMBDA j : df.columns[j] = cols[k])]))

\* the empty dict; d[k] = v on a dict; dict.update
EmptyDict == <<>>
Put(d, k, v) == [x \in (DOMAIN d) \cup {k} |-> IF x = k THEN v ELSE d[x]]
\* a faulty merge: a key already in the dict keeps its earlier value
Update_KeepOld(d, e) == [x \in (DOMAIN d) \cup (DOMAIN e) |-> IF x \in DOMAIN d THEN d[x] ELSE e[x]]
Update(d, e) == [x \in (DOMAIN d) \cup (DOMAIN e) |-> IF x \in DOMAIN e THEN e[x] ELSE d[x]]

(***************************************************************************)
(* Configuration tables.                                                   *)
(***************************************************************************)
\* the program variants: scripts 2, 3, 4 and the GUI worker
Variants == {"v2", "v3", "v4", "gui"}

\* the keys of FILE_PATTERNS, in the order excel_files is built and iterated
FILE_PATTERNS ==
    <<FT_HuiZong, FT_XianHuan, FT_ShouWeiSheng, FT_QieKou, FT_XueGuan,
      FT_HuXiJi, FT_DaoNiaoGuan>>

\* INDICATOR_MAP of script 4 and of the GUI worker
INDICATOR_MAP ==
    (FT_HuiZong :> <<I_NewCases, I_NewEpisodes, I_Inpatients, I_Unreported>>) @@
    (FT_XianHuan :> <<I_Infected, I_Episodes, I_PrevInpatients>>) @@
    (FT_ShouWeiSheng :> <<I_HandActual, I_HandDue>>) @@
    (FT_QieKou :> <<I_SsiEpisodes, I_SsiOps>>) @@
    (FT_XueGuan :> <<I_ClabsiEpisodes, I_CvcDays>>) @@
    (FT_HuXiJi :> <<I_VapEpisodes, I_VentDays>>) @@
    (FT_DaoNiaoGuan :> <<I_CautiEpisodes, I_CathDays>>)

\* INDICATOR_MAP of scripts 2 and 3: the prevalence report has two fragments
INDICATOR_MAP_23 ==
    [INDICATOR_MAP EXCEPT ![FT_XianHuan] = <<I_Infected, I_Episodes>>]

\* INDICATOR_MAP.get(file_type, []) in the variant's table
TargetIndicators(variant, file_type) ==
    LET m == IF variant \in {"v2", "v3"} THEN INDICATOR_MAP_23 ELSE INDICATOR_MAP
    IN  IF file_type \in DOMAIN m THEN m[file_type] ELSE <<>>

\* INDICATOR_NAME_MAPPING of script 4 and of the GUI worker
INDICATOR_NAME_MAPPING ==
    (I_NewCases :> <<N_NewCases, N_DueReports>>) @@
    (I_NewEpisodes :> <<N_NewEpisodes>>) @@
    (I_Inpatients :> <<N_Inpatients>>) @@
    (I_PrevInpatients :> <<N_PrevInpatients>>) @@
    (I_Infected :> <<N_Infected>>) @@
    (I_Episodes :> <<N_Episodes>>) @@
    (I_Unreported :> <<N_Unreported>>) @@
    (I_HandActual :> <<N_HandActual>>) @@
    (I_HandDue :> <<N_HandDue>>) @@
    (I_SsiEpisodes :> <<N_SsiEpisodes>>) @@
    (I_SsiOps :> <<N_SsiOps>>) @@
    (I_ClabsiEpisodes :> <<N_ClabsiEpisodes>>) @@
    (I_CvcDays :> <<N_CvcDays>>) @@
    (I_VapEpisodes :> <<N_VapEpisodes>>) @@
    (I_VentDays :> <<N_VentDays>>) @@
    (I_CautiEpisodes :> <<N_CautiEpisodes>>) @@
    (I_CathDays :> <<N_CathDays>>)

\* a faulty order list: the second name of 新发感染人数 is not listed
RESULT_ROW_ORDER_Short ==
    <<N_NewCases, N_NewEpisodes, N_Inpatients, N_Infected, N_Episodes,
      N_PrevInpatients, N_Unreported, N_HandActual, N_HandDue,
      N_SsiEpisodes, N_SsiOps, N_ClabsiEpisodes, N_CvcDays, N_VapEpisodes,
      N_VentDays, N_CautiEpisodes, N_CathDays>>

\* RESULT_ROW_ORDER of script 4 and of the GUI worker
RESULT_ROW_ORDER ==
    <<N_NewCases, N_NewEpisodes, N_Inpatients, N_Infected, N_Episodes,
      N_PrevInpatients, N_Unreported, N_DueReports, N_HandActual, N_HandDue,
      N_SsiEpisodes, N_SsiOps, N_ClabsiEpisodes, N_CvcDays, N_VapEpisodes,
      N_VentDays, N_CautiEpisodes, N_CathDays>>

\* RESULT_ROW_ORDER of script 2
RESULT_ROW_ORDER_2 ==
    <<I_NewCases, I_NewEpisodes, I_Infected, I_Episodes, I_Unreported,
      I_NewCases, I_HandActual, I_HandDue, I_SsiEpisodes, I_SsiOps,
      I_ClabsiEpisodes, I_CvcDays, I_VapEpisodes, I_CautiEpisodes, I_CathDays>>

\* RESULT_ROW_ORDER of script 3
RESULT_ROW_ORDER_3 ==
    <<I_NewCases, I_NewEpisodes, I_Infected, I_Episodes, I_Unreported,
      I_NewCases, I_HandActual, I_HandDue, I_SsiEpisodes, I_SsiOps,
      I_ClabsiEpisodes, I_CvcDays, I_VapEpisodes, I_VentDays,
      I_CautiEpisodes, I_CathDays>>

\* the variant's OutputOrder
OutputOrder(variant) ==
    CASE variant = "v2" -> RESULT_ROW_ORDER_2
      [] variant = "v3" -> RESULT_ROW_ORDER_3
      [] OTHER -> RESULT_ROW_ORDER

\* the entity markers of clean_dataframe
EntityMarkers(variant) ==
    IF variant = "v2" THEN <<M_KeShi, M_QuanYuan>>
    ELSE <<M_KeShi, M_QuanYuan, M_HeJi>>

\* patterns of find_quanyuan_row
patterns == <<M_QuanYuan, M_HeJi, M_ZongJi, M_HuiZong, M_QuanYuanHeJi>>

(***************************************************************************)
(* Header Locator.                                                         *)
(***************************************************************************)
\* a faulty loop: the index of the last matching row (no return inside the loop)
RECURSIVE FindHeaderFrom_Last(_, _, _)
FindHeaderFrom_Last(rows, target_indicators, i) ==
    IF i > Len(rows) THEN 0
    ELSE LET later == FindHeaderFrom_Last(rows, target_indicators, i + 1)
         IN  IF later # 0 THEN later
             ELSE IF ContainsAny(RowStr(rows[i]), target_indicators) THEN i - 1
             ELSE 0

\* the loop of find_header_row from row position i (1-based) on; the result
\* is the 0-based index label the code returns
RECURSIVE FindHeaderFrom(_, _, _)
FindHeaderFrom(rows, target_indicators, i) ==
    IF i > Len(rows) THEN 0
    ELSE IF ContainsAny(RowStr(rows[i]), target_indicators) THEN i - 1
    ELSE FindHeaderFrom(rows, target_indicators, i + 1)

find_header_row(df, file_type, variant) ==
    FindHeaderFrom(df.rows, TargetIndicators(variant, file_type), 1)

(***************************************************************************)
(* Grid Normalizer.  A result is [ok, df]: ok = FALSE when the code raises *)
(* (the caller's except clause then skips the file).                       *)
(***************************************************************************)
Raised == [ok |-> FALSE, df |-> [columns |-> <<>>, rows |-> <<>>]]
Returned(df) == [ok |-> TRUE, df |-> df]

\* df.columns = df.iloc[header_row]; df = df[header_row + 1:]
SetHeader(df, hr) ==
    [columns |-> df.rows[hr + 1], rows |-> SubSeq(df.rows, hr + 2, Len(df.rows))]

\* the prevalence report's rename of one column label
RelabelColumn(col) ==
    IF Contains(Str(col), I_Inpatients)
    THEN Txt(Replace(Str(col), I_Inpatients, I_PrevInpatients))
    ELSE col

\* the rename step: scripts 4 and GUI, prevalence report only
Relabel(df, file_type, variant) ==
    IF variant \in {"v4", "gui"} /\ file_type = FT_XianHuan
    THEN [df EXCEPT !.columns = [j \in 1..Len(df.columns) |-> RelabelColumn(df.columns[j])]]
    ELSE df

\* the first column (1-based) whose label holds an entity marker, 0 if none
FirstMarkerColumn(df, markers) ==
    LET hits == SelectSeq(Range(Len(df.columns)),
                          LAMBDA j : ContainsAny(Str(df.columns[j]), markers))
    IN  IF hits = <<>> THEN 0 ELSE hits[1]

\* cols.insert(0, cols.pop(cols.index(col))); df = df[cols]
MoveToFront(df, p) ==
    LET cols == df.columns
        q    == IndexOf(cols, cols[p])
        moved == <<cols[q]>> \o SubSeq(cols, 1, q - 1) \o SubSeq(cols, q + 1, Len(cols))
    IN  SelectLabels(df, moved)

\* the entity-column step on a frame with at least one column
EnsureEntityFirst(df, variant) ==
    LET markers == EntityMarkers(variant)
        p == FirstMarkerColumn(df, markers)
    IN  IF ~ContainsAny(Str(df.columns[1]), markers) /\ p # 0
        THEN MoveToFront(df, p)
        ELSE df

clean_dataframe(df, file_type, hr, variant) ==
    IF hr + 1 > Len(df.rows) THEN Raised          \* df.iloc[header_row]: IndexError
    ELSE LET named   == Relabel(SetHeader(df, hr), file_type, variant)
             dropped == DropEmptyColumns(DropEmptyRows(named))
         IN  IF Len(dropped.columns) = 0
             THEN IF variant \in {"v2", "v3"}
                  THEN Returned(dropped)          \* guarded by len(df.columns) > 0
                  ELSE Raised                     \* df.columns[0]: IndexError
             ELSE Returned(EnsureEntityFirst(dropped, variant))

(***************************************************************************)
(* Totals-Row Resolver.  A result is [ok, row]: row is the 1-based position*)
(* of the chosen data row, 0 for None; ok = FALSE when the code raises.    *)
(***************************************************************************)
\* df[first_col].astype(str): the stringified entity value of data row i
EntityValue(df, i) == Str(df.rows[i][1])

\* a faulty match: the rows whose entity value is the pattern itself
MatchingRows_Exact(df, pattern) ==
    SelectSeq(Range(Len(df.rows)), LAMBDA i : EntityValue(df, i) = pattern)

\* the rows whose entity value contains the pattern, in table order
MatchingRows(df, pattern) ==
    SelectSeq(Range(Len(df.rows)), LAMBDA i : Contains(EntityValue(df, i), pattern))

\* a faulty resolver: the first row that matches any pattern (rows outside,
\* patterns inside), then the single-row fallback
FindByPattern_RowFirst(df, k) ==
    LET hits == SelectSeq(Range(Len(df.rows)),
                          LAMBDA i : \E q \in k..Len(patterns) :
                                         Contains(EntityValue(df, i), patterns[q]))
    IN  IF hits # <<>> THEN hits[1]
        ELSE IF Len(df.rows) = 1 THEN 1 ELSE 0

\* the pattern loop of find_quanyuan_row from pattern k on, then the
\* single-row fallback
RECURSIVE FindByPattern(_, _)
FindByPattern(df, k) ==
    IF k > Len(patterns)
    THEN IF Len(df.rows) = 1 THEN 1 ELSE 0
    ELSE LET matches == MatchingRows(df, patterns[k])
         IN  IF matches # <<>> THEN matches[1] ELSE FindByPattern(df, k + 1)

\* scripts 2 and 3: the rows whose stripped entity value is one of the labels
ExactRows(df, labels) ==
    SelectSeq(Range(Len(df.rows)), LAMBDA i : Strip(EntityValue(df, i)) \in labels)

\* the totals row by variant; a first-column label carried by several columns
\* makes df[first_col] a frame, whose .str raises AttributeError
find_quanyuan_row(df, variant) ==
    IF LabelCount(df, df.columns[1]) > 1 THEN [ok |-> FALSE, row |-> 0]
    ELSE IF variant \in {"v4", "gui"} THEN [ok |-> TRUE, row |-> FindByPattern(df, 1)]
    ELSE LET quan_yuan_row ==
                 ExactRows(df, IF variant = "v2" THEN {M_QuanYuan} ELSE {M_QuanYuan, M_HeJi})
         IN  [ok |-> TRUE, row |-> IF quan_yuan_row = <<>> THEN 0 ELSE quan_yuan_row[1]]

(***************************************************************************)
(* Indicator Resolver.                                                     *)
(***************************************************************************)
\* the isinstance(...) / float(value) step: the numeric value is unchanged
Coerce(value) == value

\* a faulty fan-out: only the first name of the list is written
PutAll_FirstOnly(d, names, value) == Put(d, Head(names), value)

\* data[new_name] = value for every new_name of the list, in order
RECURSIVE PutAll(_, _, _)
PutAll(d, names, value) ==
    IF names = <<>> THEN d ELSE PutAll(Put(d, Head(names), value), Tail(names), value)

\* a faulty recorder: the value is always written under the fragment itself
Record_Raw(d, indicator, value, variant) == Put(d, indicator, value)

\* the name-mapping branch of scripts 4 and GUI; scripts 2 and 3 write under
\* the fragment
Record(d, indicator, value, variant) ==
    IF variant \in {"v4", "gui"} /\ indicator \in DOMAIN INDICATOR_NAME_MAPPING
    THEN PutAll(d, INDICATOR_NAME_MAPPING[indicator], value)
    ELSE Put(d, indicator, value)

\* a faulty inner loop: no pd.isna test, the cell is recorded as it is
RECURSIVE TryIndicators_NoNaCheck(_, _, _, _, _, _, _)
TryIndicators_NoNaCheck(d, df, r, indicators, j, k, variant) ==
    IF k > Len(indicators) THEN d
    ELSE IF ~Contains(Strip(Str(df.columns[j])), indicators[k])
         THEN TryIndicators_NoNaCheck(d, df, r, indicators, j, k + 1, variant)
    ELSE IF LabelCount(df, df.columns[j]) > 1
         THEN TryIndicators_NoNaCheck(d, df, r, indicators, j, k + 1, variant)
    ELSE Record(d, indicators[k], Coerce(r[j]), variant)

\* the inner loop over indicators for column j, from indicator k on.  A label
\* carried by several columns makes row[col] a Series and `if pd.isna(value)`
\* raise ValueError, which the inner except swallows: the loop goes on with
\* the next indicator, as it does after `continue` on a missing cell.
RECURSIVE TryIndicators(_, _, _, _, _, _, _)
TryIndicators(d, df, r, indicators, j, k, variant) ==
    IF k > Len(indicators) THEN d
    ELSE IF ~Contains(Strip(Str(df.columns[j])), indicators[k])
         THEN TryIndicators(d, df, r, indicators, j, k + 1, variant)
    ELSE IF LabelCount(df, df.columns[j]) > 1
         THEN TryIndicators(d, df, r, indicators, j, k + 1, variant)
    ELSE IF IsNa(r[j])
         THEN TryIndicators(d, df, r, indicators, j, k + 1, variant)
    ELSE Record(d, indicators[k], Coerce(r[j]), variant)

\* a faulty outer loop: the columns are visited from right to left, so the
\* leftmost matching column is written last
RECURSIVE ExtractColumns_FirstWins(_, _, _, _, _, _)
ExtractColumns_FirstWins(d, df, r, indicators, j, variant) ==
    IF j > Len(df.columns) THEN d
    ELSE TryIndicators(ExtractColumns_FirstWins(d, df, r, indicators, j + 1, variant),
                       df, r, indicators, j, 1, variant)

\* the outer loop over the columns, from column j on
RECURSIVE ExtractColumns(_, _, _, _, _, _)
ExtractColumns(d, df, r, indicators, j, variant) ==
    IF j > Len(df.columns) THEN d
    ELSE ExtractColumns(TryIndicators(d, df, r, indicators, j, 1, variant),
                        df, r, indicators, j + 1, variant)

\* the extraction loop of one file, writing into the dict d
ExtractInto(d, df, row_pos, file_type, variant) ==
    ExtractColumns(d, df, df.rows[row_pos], TargetIndicators(variant, file_type), 1, variant)

(***************************************************************************)
(* Result Assembler.                                                       *)
(***************************************************************************)
\* a faulty assembly: the rows are appended in front, so the table comes out
\* in reverse list order
RECURSIVE OrderedRows_Reversed(_, _)
OrderedRows_Reversed(order, combined) ==
    IF order = <<>> THEN <<>>
    ELSE IF Head(order) \in DOMAIN combined
         THEN OrderedRows_Reversed(Tail(order), combined) \o <<<<Head(order), combined[Head(order)]>>>>
         ELSE OrderedRows_Reversed(Tail(order), combined)

\* the rows of the final table: for each entry of the order list that is a
\* key of combined_data, in list order, the pair (key, value)
RECURSIVE OrderedRows(_, _)
OrderedRows(order, combined) ==
    IF order = <<>> THEN <<>>
    ELSE IF Head(order) \in DOMAIN combined
         THEN <<<<Head(order), combined[Head(order)]>>>> \o OrderedRows(Tail(order), combined)
         ELSE OrderedRows(Tail(order), combined)

AssembleResult(combined, variant) == OrderedRows(OutputOrder(variant), combined)

(***************************************************************************)
(* Worksheets the model reads.                                             *)
(***************************************************************************)
\* rows of three cells a worksheet is made of
R_blank == <<NaN, NaN, NaN>>
R_title == <<Txt(X_BaoBiao), NaN, NaN>>
R_head1 == <<Txt(M_KeShi), Txt(I_NewCases), Txt(I_Inpatients)>>
R_head2 == <<Txt(I_NewCases), Txt(I_Infected), Txt(M_KeShi)>>
R_head3 == <<Txt(I_NewCases), Txt(M_KeShi), Txt(I_NewCases)>>
R_head4 == <<Txt(M_KeShi), Txt(M_KeShi), Txt(I_NewCases)>>
R_total == <<Txt(M_QuanYuan), Num(5), Num(7)>>
R_dept  == <<Txt(X_NeiKe), Num(7), NaN>>
R_sum   == <<Txt(M_HeJi), NaN, Num(5)>>
R_right == <<Num(5), Num(7), Txt(M_QuanYuanHeJi)>>

RowPool ==
    {R_blank, R_title, R_head1, R_head2, R_head3, R_head4, R_total, R_dept, R_sum, R_right}

\* a header row that names the inpatient column and no target fragment of the
\* prevalence report
R_prev == <<Txt(M_KeShi), Txt(I_Inpatients), Txt(X_BaoBiao)>>

\* every worksheet of at most n rows over the pool and R_prev
FallbackSheets(n) == UNION {[1..k -> RowPool \cup {R_prev}] : k \in 0..n}

\* every worksheet of at most n rows over the pool (the empty sheet included)
Worksheets(n) == UNION {[1..k -> RowPool] : k \in 0..n}

\* the worksheets of a batch: a good report, a report whose only row is a
\* department, one with two department rows, one empty below the header,
\* one with a totals row and no indicator column
Workbooks ==
    {<<R_head1, R_total>>, <<R_title, R_head1, R_dept>>, <<R_head1, R_dept, R_dept>>,
     <<R_head1, R_blank>>, <<R_title, R_total>>}

\* the report types of the files a scan finds
FileTypes == {FT_HuiZong, FT_XianHuan}

\* pd.read_excel(filepath, header=None): integer column labels 0..n-1
RawFrame(grid) ==
    [columns |-> IF grid = <<>> THEN <<>> ELSE [j \in 1..Len(grid[1]) |-> Num(j - 1)],
     rows    |-> grid]

\* the file lists a scan can build: at most n files, grouped by report type
\* in FILE_PATTERNS order
FileLists(n) ==
    {fs \in UNION {[1..k -> FileTypes] : k \in 0..n} :
        \A i \in 1..Len(fs) : \A j \in (i + 1)..Len(fs) :
            IndexOf(FILE_PATTERNS, fs[i]) <= IndexOf(FILE_PATTERNS, fs[j])}

(***************************************************************************)
(* State.                                                                  *)
(***************************************************************************)
VARIABLES
    variant,        \* which program runs: "v2", "v3", "v4" or "gui"
    pc,             \* position of the run
    excel_files,    \* report types of the files found, in processing order
    idx,            \* 1-based position of the current file in excel_files
    sheet,          \* history: the worksheet the current file was read from
    df,             \* the current frame: raw after the read, cleaned later
    header_row,     \* result of find_header_row (0-based)
    row,            \* position of the totals row in df (1-based), 0 for None
    data,           \* the per-file dict of scripts 2, 3 and 4
    combined_data,  \* CombinedResult
    final_result,   \* rows of the ordered table, as (key, value) pairs
    artifact,       \* the tables written to disk, in order
    message,        \* the terminal message to the operator
    hist            \* history: per finished file, its outcome, what it produced,
                    \* combined_data after it and the worksheet it was read from

\* the GUI program: the worker thread (ExcelProcessor), the front-end
\* (MainWindow) and the queue of signals between them.  The scripts leave
\* all of it as Init sets it.
VARIABLES
    thread,         \* the worker's QThread: "none", "running" or "finished"
    is_running,     \* ExcelProcessor._is_running of the current worker
    terminating,    \* terminate() was called on the running thread
    worker_pc,      \* the worker between pipeline steps: "start", "work",
                    \* "emit_log", "emit_finished" or "ended"
    run_id,         \* number of workers started so far; the current worker's id
    logs,           \* log() calls the current worker has made
    channel,        \* signals emitted by workers and not yet delivered
    front_pc,       \* the front-end: "idle" in the event loop, "waiting" in wait()
    log_output,     \* the log widget, as (source, run) entries
    output_file,    \* MainWindow.output_file: 0 for "", else the run that wrote it
    run_btn,        \* the run button is enabled
    open_btn,       \* the open-result button is enabled
    emitted,        \* history: the signals the current worker emitted, in order
    cancelled,      \* history: the runs a completed reset_operation stopped
    accesses        \* history: (side, mode, field) for every field access

gui_vars == <<thread, is_running, terminating, worker_pc, run_id, logs, channel,
              front_pc, log_output, output_file, run_btn, open_btn, emitted,
              cancelled, accesses>>

pipeline_vars == <<variant, pc, excel_files, idx, sheet, df, header_row, row, data,
                   combined_data, final_result, artifact, message, hist>>

vars == <<pipeline_vars, gui_vars>>

NoFrame == [columns |-> <<>>, rows |-> <<>>]

file_type == excel_files[idx]

Init ==
    /\ variant \in Variants
    /\ pc = "scan"
    /\ excel_files = <<>>
    /\ idx = 1
    /\ sheet = <<>>
    /\ df = NoFrame
    /\ header_row = 0
    /\ row = 0
    /\ data = EmptyDict
    /\ combined_data = EmptyDict
    /\ final_result = <<>>
    /\ artifact = <<>>
    /\ message = "none"
    /\ hist = <<>>
    /\ thread = "none"
    /\ is_running = FALSE
    /\ terminating = FALSE
    /\ worker_pc = "ended"
    /\ run_id = 0
    /\ logs = 0
    /\ channel = <<>>
    /\ front_pc = "idle"
    /\ log_output = <<[src |-> "system", run |-> 0]>>
    /\ output_file = 0
    /\ run_btn = TRUE
    /\ open_btn = FALSE
    /\ emitted = <<>>
    /\ cancelled = {}
    /\ accesses = {}

\* the end of one file's turn in the loop over excel_files
EndFile(status, produced, combined) ==
    /\ hist' = Append(hist, [status |-> status, data |-> produced, after |-> combined,
                            sheet |-> sheet])
    /\ combined_data' = combined
    /\ sheet' = <<>>
    /\ idx' = idx + 1
    /\ pc' = "read"
    /\ df' = NoFrame
    /\ header_row' = 0
    /\ row' = 0
    /\ data' = EmptyDict
    /\ UNCHANGED <<variant, excel_files, final_result, artifact, message,
                   gui_vars>>

(***************************************************************************)
(* Actions.                                                                *)
(***************************************************************************)
\* find_excel_files and the `if not excel_files` check
ScanFiles(n) ==
    /\ pc = "scan"
    /\ \E fs \in FileLists(n) :
        /\ excel_files' = fs
        /\ IF fs = <<>>
           THEN pc' = "done" /\ message' = "no_files"
           ELSE pc' = "read" /\ message' = message
    /\ UNCHANGED <<variant, idx, sheet, df, header_row, row, data, combined_data,
                   final_result, artifact, hist,
                   gui_vars>>

\* pd.read_excel succeeds (by the first or the fallback engine)
ReadFile(sheets) ==
    /\ pc = "read"
    /\ idx <= Len(excel_files)
    /\ \E grid \in sheets : sheet' = grid /\ df' = RawFrame(grid)
    /\ pc' = "header"
    /\ UNCHANGED <<variant, excel_files, idx, header_row, row, data,
                   combined_data, final_result, artifact, message, hist,
                   gui_vars>>

\* a faulty read: the exception leaves the loop over the files
ReadFails_Abort ==
    /\ pc = "read"
    /\ idx <= Len(excel_files)
    /\ pc' = "done"
    /\ message' = "traceback"
    /\ UNCHANGED <<variant, excel_files, idx, sheet, df, header_row, row, data,
                   combined_data, final_result, artifact, hist,
                   gui_vars>>

\* pd.read_excel raises under every read strategy of the variant
ReadFails ==
    /\ pc = "read"
    /\ idx <= Len(excel_files)
    /\ EndFile("read_failed", EmptyDict, combined_data)

FindHeaderRow ==
    /\ pc = "header"
    /\ header_row' = find_header_row(df, file_type, variant)
    /\ pc' = "clean"
    /\ UNCHANGED <<variant, excel_files, idx, sheet, df, row, data, combined_data,
                   final_result, artifact, message, hist,
                   gui_vars>>

\* the rest of clean_dataframe and the caller's `if df.empty`
CleanDataframe ==
    /\ pc = "clean"
    /\ LET r == clean_dataframe(df, file_type, header_row, variant)
       IN  IF ~r.ok THEN EndFile("exception", EmptyDict, combined_data)
           ELSE IF IsEmpty(r.df) THEN EndFile("empty", EmptyDict, combined_data)
           ELSE /\ df' = r.df
                /\ pc' = "find_row"
                /\ UNCHANGED <<variant, excel_files, idx, sheet, header_row, row, data,
                               combined_data, final_result, artifact, message, hist,
                   gui_vars>>

\* find_quanyuan_row and the caller's `if row is None`
FindQuanyuanRow ==
    /\ pc = "find_row"
    /\ LET r == find_quanyuan_row(df, variant)
       IN  IF ~r.ok THEN EndFile("exception", EmptyDict, combined_data)
           ELSE IF r.row = 0 THEN EndFile("no_row", EmptyDict, combined_data)
           ELSE /\ row' = r.row
                /\ pc' = "extract"
                /\ UNCHANGED <<variant, excel_files, idx, sheet, df, header_row, data,
                               combined_data, final_result, artifact, message, hist,
                   gui_vars>>

\* the indicator loops.  The scripts fill the per-file dict they return; the
\* GUI worker writes each value into combined_data as it goes (data is then
\* the history of what this file wrote).
ExtractData ==
    /\ pc = "extract"
    /\ data' = ExtractInto(EmptyDict, df, row, file_type, variant)
    /\ combined_data' = IF variant = "gui"
                        THEN ExtractInto(combined_data, df, row, file_type, variant)
                        ELSE combined_data
    /\ pc' = "merge"
    /\ UNCHANGED <<variant, excel_files, idx, sheet, df, header_row, row,
                   final_result, artifact, message, hist,
                   gui_vars>>

\* scripts: main's `if data := extract_data_from_file(...): combined_data.update(data)`;
\* GUI worker: the end of the loop body, combined_data already written
MergeData ==
    /\ pc = "merge"
    /\ EndFile(IF data = EmptyDict THEN "no_data" ELSE "ok", data,
               IF variant # "gui" /\ data # EmptyDict
               THEN Update(combined_data, data)
               ELSE combined_data)

\* a faulty end of batch: no `if not combined_data` check
FinishBatch_NoCheck ==
    /\ pc = "read"
    /\ idx > Len(excel_files)
    /\ final_result' = AssembleResult(combined_data, variant)
    /\ pc' = "write"
    /\ UNCHANGED <<variant, excel_files, idx, sheet, df, header_row, row, data,
                   combined_data, artifact, message, hist,
                   gui_vars>>

\* after the last file: `if not combined_data`, else the ordered table
FinishBatch ==
    /\ pc = "read"
    /\ idx > Len(excel_files)
    /\ IF combined_data = EmptyDict
       THEN /\ message' = "no_data"
            /\ pc' = "done"
            /\ final_result' = final_result
       ELSE /\ final_result' = AssembleResult(combined_data, variant)
            /\ pc' = "write"
            /\ message' = message
    /\ UNCHANGED <<variant, excel_files, idx, sheet, df, header_row, row, data,
                   combined_data, artifact, hist,
                   gui_vars>>

\* final_result.to_excel(...) succeeds
WriteArtifact ==
    /\ pc = "write"
    /\ artifact' = Append(artifact, final_result)
    /\ message' = "saved"
    /\ pc' = "done"
    /\ UNCHANGED <<variant, excel_files, idx, sheet, df, header_row, row, data,
                   combined_data, final_result, hist,
                   gui_vars>>

\* final_result.to_excel(...) raises: the GUI worker's outer except reports
\* it, the scripts end with the traceback
WriteFails ==
    /\ pc = "write"
    /\ message' = IF variant = "gui" THEN "fatal_error" ELSE "traceback"
    /\ pc' = "done"
    /\ UNCHANGED <<variant, excel_files, idx, sheet, df, header_row, row, data,
                   combined_data, final_result, artifact, hist,
                   gui_vars>>

\* the steps that do not draw input
Step ==
    \/ ReadFails
    \/ FindHeaderRow
    \/ CleanDataframe
    \/ FindQuanyuanRow
    \/ ExtractData
    \/ MergeData
    \/ FinishBatch
    \/ WriteArtifact
    \/ WriteFails

\* a batch of up to MaxFiles files over the batch worksheets
Next == ScanFiles(MaxFiles) \/ ReadFile(Workbooks) \/ Step
Spec == Init /\ [][Next]_vars

\* one file over every worksheet of up to MaxRows rows
NextFile == ScanFiles(1) \/ ReadFile(Worksheets(MaxRows)) \/ Step
SpecFile == Init /\ [][NextFile]_vars

\* one file over the worksheets that include headers without a target fragment
NextFallback == ScanFiles(1) \/ ReadFile(FallbackSheets(MaxFallbackRows)) \/ Step
SpecFallback == Init /\ [][NextFallback]_vars

(***************************************************************************)
(* The GUI program: ExcelProcessor (a QThread) and MainWindow.  The        *)
(* worker's signals are connected to MainWindow slots across threads, so   *)
(* every emit queues an event that the front-end's event loop delivers     *)
(* later, between two handlers.                                            *)
(***************************************************************************)
\* the worksheets of a GUI run: a good report and one without indicator column
GuiWorkbooks == {<<R_head1, R_total>>, <<R_title, R_total>>}

\* update_signal.emit(...) and finished_signal.emit(output_file, ordered_results)
LogMsg(r) == [kind |-> "log", run |-> r, output_file |-> 0, results |-> <<>>]
FinishedMsg(r, path, results) ==
    [kind |-> "finished", run |-> r, output_file |-> path, results |-> results]

\* a line of the log widget
Line(src, r) == [src |-> src, run |-> r]

\* the fields each piece of code touches, as (side, mode, field); "init" is a
\* write in ExcelProcessor.__init__, before the thread is started
ConstructAccesses ==
    {<<"front", "init", "input_folder">>, <<"front", "init", "output_path">>,
     <<"front", "init", "current_time">>, <<"front", "init", "_is_running">>}
RunExtractionAccesses ==
    {<<"front", "write", "log_output">>, <<"front", "write", "run_btn">>,
     <<"front", "write", "open_btn">>, <<"front", "write", "processor">>}
StopAccesses == {<<"front", "read", "processor">>, <<"front", "write", "_is_running">>}
ResetAccesses ==
    {<<"front", "read", "processor">>, <<"front", "write", "log_output">>,
     <<"front", "write", "output_file">>, <<"front", "write", "run_btn">>,
     <<"front", "write", "open_btn">>}
LogSlotAccesses == {<<"front", "write", "log_output">>}
FinishedSlotAccesses ==
    {<<"front", "write", "log_output">>, <<"front", "write", "output_file">>,
     <<"front", "write", "run_btn">>, <<"front", "write", "open_btn">>}
RunAccesses ==
    {<<"worker", "read", "input_folder">>, <<"worker", "read", "output_path">>,
     <<"worker", "read", "current_time">>}
LogAccesses == {<<"worker", "read", "_is_running">>}
\* a faulty end of run: the worker sets the front-end's output_file itself
FinishAccesses_SetsOutputFile ==
    {<<"worker", "read", "_is_running">>, <<"worker", "write", "output_file">>}
FinishAccesses == {<<"worker", "read", "_is_running">>}

\* the pipeline variables of a fresh run()
FreshRun ==
    /\ pc' = "scan"
    /\ excel_files' = <<>>
    /\ idx' = 1
    /\ sheet' = <<>>
    /\ df' = NoFrame
    /\ header_row' = 0
    /\ row' = 0
    /\ data' = EmptyDict
    /\ combined_data' = EmptyDict
    /\ final_result' = <<>>
    /\ message' = "none"
    /\ hist' = <<>>
    /\ UNCHANGED <<variant, artifact>>

\* MainWindow.run_extraction with valid folders: a new ExcelProcessor is
\* built, connected and started.  (Replacing a processor whose thread still
\* runs destroys a running QThread, which aborts the process: no step.)
RunExtraction ==
    /\ front_pc = "idle"
    /\ run_btn
    /\ thread # "running"
    /\ run_id < MaxRuns
    /\ log_output' = Append(log_output, Line("system", run_id + 1))
    /\ run_btn' = FALSE
    /\ open_btn' = FALSE
    /\ run_id' = run_id + 1
    /\ is_running' = TRUE
    /\ thread' = "running"
    /\ terminating' = FALSE
    /\ worker_pc' = "start"
    /\ logs' = 0
    /\ accesses' = accesses \cup ConstructAccesses \cup RunExtractionAccesses
    /\ emitted' = <<>>
    /\ FreshRun
    /\ UNCHANGED <<channel, front_pc, output_file, cancelled>>

\* the head of run(): os.chdir(self.input_folder) and the reads of the
\* constructor's fields
WorkerBegin ==
    /\ thread = "running"
    /\ worker_pc = "start"
    /\ worker_pc' = "work"
    /\ accesses' = accesses \cup RunAccesses
    /\ UNCHANGED <<pipeline_vars, thread, is_running, terminating, run_id, logs, channel,
                   front_pc, log_output, output_file, run_btn, open_btn, emitted,
                   cancelled>>

\* a step of the extraction pipeline inside run()
WorkerPipeline ==
    /\ thread = "running"
    /\ worker_pc = "work"
    /\ ScanFiles(1) \/ ReadFile(GuiWorkbooks) \/ Step

\* ExcelProcessor.log, first half: `if self._is_running`
WorkerLogCheck ==
    /\ thread = "running"
    /\ worker_pc = "work"
    /\ pc \in {"scan", "read", "done"}
    /\ logs < MaxLogs
    /\ logs' = logs + 1
    /\ worker_pc' = IF is_running THEN "emit_log" ELSE "work"
    /\ accesses' = accesses \cup LogAccesses
    /\ UNCHANGED <<pipeline_vars, thread, is_running, terminating, run_id, channel,
                   front_pc, log_output, output_file, run_btn, open_btn, emitted,
                   cancelled>>

\* ExcelProcessor.log, second half: update_signal.emit
WorkerLogEmit ==
    /\ thread = "running"
    /\ worker_pc = "emit_log"
    /\ channel' = Append(channel, LogMsg(run_id))
    /\ emitted' = Append(emitted, LogMsg(run_id))
    /\ worker_pc' = "work"
    /\ UNCHANGED <<pipeline_vars, thread, is_running, terminating, run_id, logs,
                   front_pc, log_output, output_file, run_btn, open_btn,
                   cancelled, accesses>>

\* the `return` after "no files" and after "no data": run() ends, nothing
\* is emitted
WorkerReturn ==
    /\ thread = "running"
    /\ worker_pc = "work"
    /\ pc = "done"
    /\ message \in {"no_files", "no_data"}
    /\ thread' = "finished"
    /\ worker_pc' = "ended"
    /\ UNCHANGED <<pipeline_vars, is_running, terminating, run_id, logs, channel,
                   front_pc, log_output, output_file, run_btn, open_btn, emitted,
                   cancelled, accesses>>

\* the `if self._is_running` before finished_signal.emit, after the write
\* and in the outer except
WorkerFinishCheck ==
    /\ thread = "running"
    /\ worker_pc = "work"
    /\ pc = "done"
    /\ message \in {"saved", "fatal_error"}
    /\ IF is_running
       THEN worker_pc' = "emit_finished" /\ thread' = thread
       ELSE worker_pc' = "ended" /\ thread' = "finished"
    /\ accesses' = accesses \cup FinishAccesses
    /\ UNCHANGED <<pipeline_vars, is_running, terminating, run_id, logs, channel,
                   front_pc, log_output, output_file, run_btn, open_btn, emitted,
                   cancelled>>

\* finished_signal.emit(output_file, ordered_results), or ("", []) from the
\* outer except; run() ends
WorkerFinishEmit ==
    /\ thread = "running"
    /\ worker_pc = "emit_finished"
    /\ LET msg == IF message = "saved"
                  THEN FinishedMsg(run_id, run_id, final_result)
                  ELSE FinishedMsg(run_id, 0, <<>>)
       IN  channel' = Append(channel, msg) /\ emitted' = Append(emitted, msg)
    /\ thread' = "finished"
    /\ worker_pc' = "ended"
    /\ UNCHANGED <<pipeline_vars, is_running, terminating, run_id, logs,
                   front_pc, log_output, output_file, run_btn, open_btn,
                   cancelled, accesses>>

\* terminate() takes effect: the thread is killed wherever it stands
ThreadTerminated ==
    /\ thread = "running"
    /\ terminating
    /\ thread' = "finished"
    /\ worker_pc' = "ended"
    /\ UNCHANGED <<pipeline_vars, is_running, terminating, run_id, logs, channel,
                   front_pc, log_output, output_file, run_btn, open_btn, emitted,
                   cancelled, accesses>>

\* the second half of reset_operation: the widgets and output_file
ResetWidgets ==
    /\ log_output' = <<Line("reset", run_id)>>
    /\ output_file' = 0
    /\ run_btn' = TRUE
    /\ open_btn' = FALSE

\* reset_operation up to wait(): with a running worker, stop() sets the flag
\* and calls terminate(), and the front-end blocks in wait(); without one the
\* handler runs to its end
ResetOperation ==
    /\ front_pc = "idle"
    /\ IF thread = "running"
       THEN /\ is_running' = FALSE
            /\ terminating' = TRUE
            /\ front_pc' = "waiting"
            /\ accesses' = accesses \cup StopAccesses
            /\ UNCHANGED <<log_output, output_file, run_btn, open_btn>>
       ELSE /\ ResetWidgets
            /\ accesses' = accesses \cup ResetAccesses
            /\ UNCHANGED <<is_running, terminating, front_pc>>
    /\ UNCHANGED <<pipeline_vars, thread, worker_pc, run_id, logs, channel, emitted,
                   cancelled>>

\* wait() returns, the thread being finished, and reset_operation runs to
\* its end
ResetFinish ==
    /\ front_pc = "waiting"
    /\ thread # "running"
    /\ ResetWidgets
    /\ front_pc' = "idle"
    /\ cancelled' = cancelled \cup {run_id}
    /\ accesses' = accesses \cup ResetAccesses
    /\ UNCHANGED <<pipeline_vars, thread, is_running, terminating, worker_pc, run_id,
                   logs, channel, emitted>>

\* the event loop delivers the oldest queued signal: MainWindow.log for a
\* log line, extraction_finished for the completion
Deliver ==
    /\ front_pc = "idle"
    /\ channel # <<>>
    /\ channel' = Tail(channel)
    /\ LET msg == Head(channel)
       IN  IF msg.kind = "log"
           THEN /\ log_output' = Append(log_output, Line("worker", msg.run))
                /\ accesses' = accesses \cup LogSlotAccesses
                /\ UNCHANGED <<output_file, run_btn, open_btn>>
           ELSE /\ run_btn' = TRUE
                /\ accesses' = accesses \cup FinishedSlotAccesses
                /\ IF msg.output_file # 0
                   THEN /\ output_file' = msg.output_file
                        /\ open_btn' = TRUE
                        /\ log_output' = Append(log_output, Line("result", msg.run))
                   ELSE /\ log_output' = Append(log_output, Line("error", msg.run))
                        /\ UNCHANGED <<output_file, open_btn>>
    /\ UNCHANGED <<pipeline_vars, thread, is_running, terminating, worker_pc, run_id,
                   logs, front_pc, emitted, cancelled>>

InitGui == Init /\ variant = "gui"

NextGui ==
    \/ RunExtraction
    \/ WorkerBegin
    \/ WorkerPipeline
    \/ WorkerLogCheck
    \/ WorkerLogEmit
    \/ WorkerReturn
    \/ WorkerFinishCheck
    \/ WorkerFinishEmit
    \/ ThreadTerminated
    \/ ResetOperation
    \/ ResetFinish
    \/ Deliver

SpecGui == InitGui /\ [][NextGui]_vars

(***************************************************************************)
(* Properties.                                                             *)
(***************************************************************************)
\* the positions at which the current file is past find_header_row
PastHeader == {"clean", "find_row", "extract", "merge"}

\* the 0-based indices of the worksheet rows whose '|'-joined string of
\* non-missing cells contains a target fragment of the file's report type
C1_MatchingRows ==
    {i \in 0..(Len(sheet) - 1) :
        \E k \in 1..Len(TargetIndicators(variant, file_type)) :
            Contains(RowStr(sheet[i + 1]), TargetIndicators(variant, file_type)[k])}

\* C1: find_header_row returns the smallest index of a worksheet row whose
\* joined string contains a target fragment, never a later matching row, and
\* 0 when no row contains any fragment.
C1_FirstMatchingRow ==
    pc \in PastHeader =>
        IF C1_MatchingRows = {} THEN header_row = 0
        ELSE /\ header_row \in C1_MatchingRows
             /\ \A i \in C1_MatchingRows : header_row <= i

\* C1 witness: the first matching row is not row 0 and a later row matches too
C1_Witness ==
    /\ pc = "clean"
    /\ header_row = 1
    /\ C1_MatchingRows = {1, 2}

\* no data row and no column of the frame is missing throughout
NoEmptyRowOrColumn(f) ==
    /\ \A i \in 1..Len(f.rows) : \E j \in 1..Len(f.columns) : ~IsNa(f.rows[i][j])
    /\ \A j \in 1..Len(f.columns) : \E i \in 1..Len(f.rows) : ~IsNa(f.rows[i][j])

\* C2: the table clean_dataframe returns has no data row whose cells are all
\* missing and no column whose cells are all missing; this holds of the frame
\* after the two dropna calls and of the frame returned after the
\* entity-column reordering.
C2_NoEmptyRowOrColumn ==
    /\ pc = "clean" =>
          LET r == clean_dataframe(df, file_type, header_row, variant)
          IN  r.ok =>
                /\ NoEmptyRowOrColumn(DropEmptyColumns(DropEmptyRows(
                       Relabel(SetHeader(df, header_row), file_type, variant))))
                /\ NoEmptyRowOrColumn(r.df)
    /\ pc \in {"find_row", "extract", "merge"} => NoEmptyRowOrColumn(df)

\* C2 witness: a cleaned table that lost a blank row and an empty column and
\* whose entity column was moved to the front
C2_Witness ==
    /\ pc = "find_row"
    /\ Len(df.rows) < Len(sheet) - header_row - 1
    /\ Len(df.columns) < Len(sheet[header_row + 1])
    /\ Contains(Str(df.columns[1]), M_KeShi)
    /\ ~Contains(Str(sheet[header_row + 1][1]), M_KeShi)

\* the patterns (by position in the list) that some entity value contains
C3_MatchedPatterns ==
    {k \in 1..Len(patterns) :
        \E i \in 1..Len(df.rows) : Contains(Str(df.rows[i][1]), patterns[k])}

\* the row C3 names: the first row whose entity value contains the earliest
\* pattern that has any matching row
C3_ExpectedRow ==
    LET kmin == CHOOSE k \in C3_MatchedPatterns : \A q \in C3_MatchedPatterns : k <= q
        hits == {i \in 1..Len(df.rows) : Contains(Str(df.rows[i][1]), patterns[kmin])}
    IN  CHOOSE i \in hits : \A h \in hits : i <= h

\* C3: in script 4 and the GUI worker the patterns are tried in the order
\* 全院, 合计, 总计, 汇总, 全院合计, and whenever find_quanyuan_row returns on a
\* table where some pattern matches, its result is the first row whose
\* column-0 value contains the earliest pattern that has a matching row, also
\* when a row matching a later pattern stands above it.
C3_EarliestPatternFirstRow ==
    /\ patterns = <<M_QuanYuan, M_HeJi, M_ZongJi, M_HuiZong, M_QuanYuanHeJi>>
    /\ variant \in {"v4", "gui"} /\ C3_MatchedPatterns # {} =>
          /\ pc = "find_row" /\ find_quanyuan_row(df, variant).ok =>
                find_quanyuan_row(df, variant).row = C3_ExpectedRow
          /\ pc \in {"extract", "merge"} => row = C3_ExpectedRow

\* C3 witness: the 全院 row is returned from below a 合计 row
C3_Witness ==
    /\ variant = "v4"
    /\ pc = "extract"
    /\ row = 2
    /\ Contains(Str(df.rows[1][1]), M_HeJi)
    /\ ~Contains(Str(df.rows[1][1]), M_QuanYuan)
    /\ Contains(Str(df.rows[2][1]), M_QuanYuan)

\* C4: in script 4 and the GUI worker, when no column-0 value of the cleaned
\* table contains any totals pattern, find_quanyuan_row returns the sole data
\* row of a table with exactly one data row, and yields no row for every
\* table with two or more data rows.
C4_SingleRowFallback ==
    variant \in {"v4", "gui"} /\ pc = "find_row" /\ C3_MatchedPatterns = {} =>
        LET r == find_quanyuan_row(df, variant)
        IN  IF Len(df.rows) = 1 THEN r.ok /\ r.row = 1 ELSE r.row = 0

\* the keys the resolver writes for an indicator fragment in this variant
C5_Names(indicator) ==
    IF variant \in {"v4", "gui"} /\ indicator \in DOMAIN INDICATOR_NAME_MAPPING
    THEN INDICATOR_NAME_MAPPING[indicator]
    ELSE <<indicator>>

\* C5: every entry of a file's result mapping holds the non-missing
\* totals-row cell of a column whose label contains the fragment the entry's
\* name belongs to; no entry holds a missing value, and a name is present
\* only if such a column exists.
C5_NoValueFromMissingCell ==
    pc = "merge" =>
        \A name \in DOMAIN data :
            /\ ~IsNa(data[name])
            /\ \E k \in 1..Len(TargetIndicators(variant, file_type)) :
               \E j \in 1..Len(df.columns) :
                  LET indicator == TargetIndicators(variant, file_type)[k]
                  IN  /\ \E a \in 1..Len(C5_Names(indicator)) : C5_Names(indicator)[a] = name
                      /\ Contains(Strip(Str(df.columns[j])), indicator)
                      /\ ~IsNa(df.rows[row][j])
                      /\ data[name] = df.rows[row][j]

\* C5 witness: the totals row has a missing cell under the 新发感染人数 column,
\* nothing is recorded for it, and the neighbouring column is recorded
C5_Witness ==
    /\ variant = "v4"
    /\ pc = "merge"
    /\ file_type = FT_HuiZong
    /\ \E j \in 1..Len(df.columns) :
          Contains(Strip(Str(df.columns[j])), I_NewCases) /\ IsNa(df.rows[row][j])
    /\ N_NewCases \notin DOMAIN data
    /\ N_Inpatients \in DOMAIN data

\* the names of an indicator are all keys of the dict or none is, and those
\* present hold one value
C6_AllOrNone(d, names) ==
    /\ \/ \A a \in 1..Len(names) : names[a] \in DOMAIN d
       \/ \A a \in 1..Len(names) : names[a] \notin DOMAIN d
    /\ \A a, b \in 1..Len(names) :
          names[a] \in DOMAIN d /\ names[b] \in DOMAIN d => d[names[a]] = d[names[b]]

\* C6: in script 4 and the GUI worker, for every indicator of
\* INDICATOR_NAME_MAPPING either none or all of its canonical names are keys
\* of the result mapping (the per-file dict, and combined_data the GUI
\* worker writes into), and when present they all hold the same value.
C6_FanOut ==
    variant \in {"v4", "gui"} =>
        \A indicator \in DOMAIN INDICATOR_NAME_MAPPING :
            /\ C6_AllOrNone(data, INDICATOR_NAME_MAPPING[indicator])
            /\ C6_AllOrNone(combined_data, INDICATOR_NAME_MAPPING[indicator])

\* C6 witness: 新发感染人数 was matched and both of its names hold the value
C6_Witness ==
    /\ variant = "gui"
    /\ pc = "merge"
    /\ N_NewCases \in DOMAIN combined_data
    /\ N_DueReports \in DOMAIN combined_data
    /\ combined_data[N_NewCases] = Num(7)
    /\ combined_data[N_DueReports] = Num(7)
    /\ Len(INDICATOR_NAME_MAPPING[I_NewCases]) = 2

\* the row keys of a table, top to bottom
C7_Keys(table) == [i \in 1..Len(table) |-> table[i][1]]

\* the variant's OutputOrder filtered to the keys of combined_data
C7_Filtered == SelectSeq(OutputOrder(variant), LAMBDA k : k \in DOMAIN combined_data)

\* how often a key occurs in a sequence of keys
C7_Count(keys, k) == Cardinality({i \in 1..Len(keys) : keys[i] = k})

\* C7 as stated: in every variant the row keys of the final table equal the
\* variant's OutputOrder filtered to the keys of combined_data, no key
\* appears twice, and every key is an entry of OutputOrder.
C7_OrderNoKeyTwice ==
    pc \in {"write", "done"} =>
        LET keys == C7_Keys(final_result)
        IN  /\ keys = C7_Filtered
            /\ \A i, j \in 1..Len(keys) : keys[i] = keys[j] => i = j
            /\ \A i \in 1..Len(keys) : IndexOf(OutputOrder(variant), keys[i]) > 0

\* C7 amended: in every variant the row keys of the final table, and of the
\* artifact written from it, equal the variant's OutputOrder filtered to the
\* keys of combined_data and every key is an entry of OutputOrder; a key
\* appears as often as OutputOrder lists it: once in script 4 and the GUI
\* worker, and in scripts 2 and 3 once except 新发感染人数, which appears twice.
C7_OrderFollowsList ==
    pc \in {"write", "done"} =>
        LET keys == C7_Keys(final_result)
        IN  /\ keys = C7_Filtered
            /\ \A a \in 1..Len(artifact) : C7_Keys(artifact[a]) = keys
            /\ \A i \in 1..Len(keys) :
                  /\ IndexOf(OutputOrder(variant), keys[i]) > 0
                  /\ final_result[i][2] = combined_data[keys[i]]
                  /\ C7_Count(keys, keys[i]) =
                        IF variant \in {"v2", "v3"} /\ keys[i] = I_NewCases THEN 2 ELSE 1

\* C7 witness: script 2 writes a table in which 新发感染人数 stands twice, with
\* another key of its list between the two
C7_Witness ==
    /\ variant = "v2"
    /\ pc = "done"
    /\ Len(artifact) = 1
    /\ C7_Keys(artifact[1]) = <<I_NewCases, I_Infected, I_NewCases>>

\* the files so far that produced a value for the key, by position
C8_Producers(k) == {i \in 1..Len(hist) : k \in DOMAIN hist[i].data}

\* the last of a non-empty set of positions
C8_Last(positions) == CHOOSE i \in positions : \A p \in positions : p <= i

\* C8: between files and at the end of the batch, combined_data has exactly
\* the keys some file so far produced, and each key holds the value of the
\* last file in processing order that produced it; a later file that
\* produced nothing for the key leaves it in place.
C8_LastWriteWins ==
    pc \in {"read", "write", "done"} =>
        /\ DOMAIN combined_data = UNION {DOMAIN hist[i].data : i \in 1..Len(hist)}
        /\ \A k \in DOMAIN combined_data :
              combined_data[k] = hist[C8_Last(C8_Producers(k))].data[k]

\* C8 witness: two files produced different values for one name, a third
\* file produced none, and the second file's value is the one held
C8_Witness ==
    /\ pc = "done"
    /\ Len(hist) = 3
    /\ C8_Producers(N_NewCases) = {1, 2}
    /\ hist[1].data[N_NewCases] = Num(5)
    /\ hist[2].data[N_NewCases] = Num(7)
    /\ hist[3].data # EmptyDict
    /\ combined_data[N_NewCases] = Num(7)

\* combined_data before the file at position i of the batch
C9_Before(i) == IF i = 1 THEN EmptyDict ELSE hist[i - 1].after

\* the outcomes of a file that is skipped
C9_Skipped == {"read_failed", "exception", "empty", "no_row"}

\* C9: a file whose read fails, whose processing raises, whose table is
\* empty after cleaning or for which no totals row is found produces nothing
\* and leaves combined_data as it was before it; the loop goes on with the
\* next file, so a run that found files ends only after every one of them
\* had its turn.
C9_FailuresNotFatal ==
    /\ \A i \in 1..Len(hist) :
          hist[i].status \in C9_Skipped =>
              hist[i].data = EmptyDict /\ hist[i].after = C9_Before(i)
    /\ pc \in {"read", "header", "clean", "find_row", "extract", "merge"} =>
          idx = Len(hist) + 1
    /\ pc \in {"write", "done"} /\ excel_files # <<>> => Len(hist) = Len(excel_files)
    /\ message \in {"traceback", "fatal_error"} => final_result # <<>>

\* C9 witness: a batch in which a failed read, a table with two department
\* rows and a good report followed one another, and the good report's values
\* were written
C9_Witness ==
    /\ pc = "done"
    /\ message = "saved"
    /\ Len(hist) = 3
    /\ hist[1].status = "read_failed"
    /\ hist[2].status = "no_row"
    /\ hist[3].status = "ok"
    /\ combined_data = hist[3].data

\* C10: a run that found no file, or whose combined_data is empty after the
\* last file, ends with no artifact written and with the message that says
\* so; an artifact is written only from a non-empty combined_data, only
\* after every file had its turn, and once.
C10_BatchFatal ==
    /\ pc = "done" /\ excel_files = <<>> => artifact = <<>> /\ message = "no_files"
    /\ pc = "done" /\ excel_files # <<>> /\ combined_data = EmptyDict =>
          artifact = <<>> /\ message = "no_data"
    /\ artifact # <<>> =>
          /\ combined_data # EmptyDict
          /\ Len(hist) = Len(excel_files)
          /\ Len(artifact) = 1
          /\ message = "saved"

\* C10 witness: every file of a batch of three was processed, none produced
\* a value, and the run ended with the no-data message and no artifact
C10_Witness ==
    /\ pc = "done"
    /\ message = "no_data"
    /\ Len(hist) = 3
    /\ hist[3].status = "no_data"
    /\ artifact = <<>>

\* the canonical output names: the members of the INDICATOR_NAME_MAPPING lists
C12_CanonicalNames ==
    UNION {{INDICATOR_NAME_MAPPING[f][a] : a \in 1..Len(INDICATOR_NAME_MAPPING[f])} :
           f \in DOMAIN INDICATOR_NAME_MAPPING}

\* C12: in script 4 and the GUI worker every key of combined_data, and of a
\* file's dict, is a member of some INDICATOR_NAME_MAPPING list; every
\* fragment configured in INDICATOR_MAP is a key of INDICATOR_NAME_MAPPING,
\* so the branch that writes under the fragment itself is never taken.
C12_KeysCanonical ==
    /\ \A ft \in DOMAIN INDICATOR_MAP : \A k \in 1..Len(INDICATOR_MAP[ft]) :
          INDICATOR_MAP[ft][k] \in DOMAIN INDICATOR_NAME_MAPPING
    /\ variant \in {"v4", "gui"} =>
          /\ DOMAIN combined_data \subseteq C12_CanonicalNames
          /\ DOMAIN data \subseteq C12_CanonicalNames
          /\ \A i \in 1..Len(hist) : DOMAIN hist[i].data \subseteq C12_CanonicalNames

\* C12 witness: files of both report types were merged in script 4 and the
\* keys held are canonical names that are not fragments
C12_Witness ==
    /\ variant = "v4"
    /\ pc = "done"
    /\ N_NewCases \in DOMAIN combined_data
    /\ N_Infected \in DOMAIN combined_data
    /\ I_NewCases \notin DOMAIN combined_data
    /\ I_Infected \notin DOMAIN combined_data

\* the columns of the cleaned table whose label contains the fragment
C13_LabelColumns(fragment) ==
    {j \in 1..Len(df.columns) : Contains(Strip(Str(df.columns[j])), fragment)}

\* the position, in the report type's list, of the indicator a column is
\* recorded under: the first fragment its label contains, when the label is
\* carried by no other column and the totals-row cell is not missing; 0 when
\* the column records nothing
C13_RecordedAs(j) ==
    LET indicators == TargetIndicators(variant, file_type)
        hits == SelectSeq(Range(Len(indicators)),
                          LAMBDA k : Contains(Strip(Str(df.columns[j])), indicators[k]))
    IN  IF hits = <<>> \/ LabelCount(df, df.columns[j]) > 1 \/ IsNa(df.rows[row][j])
        THEN 0 ELSE hits[1]

\* the first and the last of a non-empty set of column positions
C13_First(positions) == CHOOSE j \in positions : \A q \in positions : j <= q
C13_Last(positions) == CHOOSE j \in positions : \A q \in positions : q <= j

\* C13 as stated: when the labels of two or more columns contain an
\* indicator's fragment and their totals-row cells are all non-missing, the
\* value under the indicator's names is that of the first such column.
C13_FirstColumnWins ==
    pc = "merge" =>
        \A k \in 1..Len(TargetIndicators(variant, file_type)) :
            LET indicator == TargetIndicators(variant, file_type)[k]
                cols == C13_LabelColumns(indicator)
            IN  Cardinality(cols) >= 2 /\ (\A j \in cols : ~IsNa(df.rows[row][j])) =>
                    \A a \in 1..Len(C5_Names(indicator)) :
                        /\ C5_Names(indicator)[a] \in DOMAIN data
                        /\ data[C5_Names(indicator)[a]] = df.rows[row][C13_First(cols)]

\* C13 amended: the columns are visited in table order and each write
\* replaces the earlier one, so the value under an indicator's names is that
\* of the last column recorded under the indicator; when the labels
\* containing the fragment are pairwise different, contain no earlier
\* fragment of the list and their cells are non-missing, that is the last
\* column whose label contains the fragment.
C13_LastColumnWins ==
    pc = "merge" =>
        \A k \in 1..Len(TargetIndicators(variant, file_type)) :
            LET indicator == TargetIndicators(variant, file_type)[k]
                writers == {j \in 1..Len(df.columns) : C13_RecordedAs(j) = k}
                cols == C13_LabelColumns(indicator)
            IN  /\ writers # {} =>
                    \A a \in 1..Len(C5_Names(indicator)) :
                        /\ C5_Names(indicator)[a] \in DOMAIN data
                        /\ data[C5_Names(indicator)[a]] = df.rows[row][C13_Last(writers)]
                /\ (\A j \in cols : C13_RecordedAs(j) = k) => writers = cols

\* C13 witness: two differently labelled columns contain 感染人数, their
\* totals-row cells are 5 and 7, and 7, the later one, is recorded
C13_Witness ==
    /\ variant = "v4"
    /\ pc = "merge"
    /\ file_type = FT_XianHuan
    /\ \E i, j \in C13_LabelColumns(I_Infected) :
          /\ i < j
          /\ C13_RecordedAs(i) = 1 /\ C13_RecordedAs(j) = 1
          /\ df.rows[row][i] = Num(5)
          /\ df.rows[row][j] = Num(7)
          /\ C13_Last(C13_LabelColumns(I_Infected)) = j
    /\ data[N_Infected] = Num(7)

\* C14: for every indicator of the file's report type, whenever some column
\* of the cleaned table has a label containing the indicator's fragment and
\* a non-missing totals-row cell, the indicator's names are present in the
\* file's result.
C14_ExhaustiveSearch ==
    pc = "merge" =>
        \A k \in 1..Len(TargetIndicators(variant, file_type)) :
            LET indicator == TargetIndicators(variant, file_type)[k]
            IN  (\E j \in C13_LabelColumns(indicator) : ~IsNa(df.rows[row][j])) =>
                    \A a \in 1..Len(C5_Names(indicator)) :
                        C5_Names(indicator)[a] \in DOMAIN data

\* the frame as it stands before the entity-column step of clean_dataframe
C15_BeforeReorder ==
    DropEmptyColumns(DropEmptyRows(Relabel(SetHeader(df, header_row), file_type, variant)))

\* the frame C15 describes: the first marker column moved to position 0 when
\* column 0 holds no marker, every other column kept once and in order
C15_Moved(f) ==
    LET markers == <<M_KeShi, M_QuanYuan, M_HeJi>>
        p == FirstMarkerColumn(f, markers)
    IN  IF ~ContainsAny(Str(f.columns[1]), markers) /\ p # 0
        THEN TakeColumns(f, <<p>> \o SelectSeq(Range(Len(f.columns)), LAMBDA j : j # p))
        ELSE f

\* C15: in script 4 and the GUI worker the table clean_dataframe returns is
\* the table before the entity-column step with the first marker column
\* moved to position 0 when column 0 holds no marker, and that table itself
\* otherwise; no column is added, lost or repeated and the other columns
\* keep their order.
C15_ReorderMovesOneColumn ==
    variant \in {"v4", "gui"} /\ pc = "clean" =>
        LET r == clean_dataframe(df, file_type, header_row, variant)
        IN  r.ok => r.df = C15_Moved(C15_BeforeReorder)

\* the header locator fell back to index 0: no worksheet row contains a
\* target fragment of the file's report type
C17_Fallback == C1_MatchingRows = {}

\* the prevalence rename applies to the label row the fallback chose: script
\* 4 or the GUI worker, prevalence report, a cell of row 0 contains
\* 同期住院患者人数
C17_RenamedByFallback ==
    /\ variant \in {"v4", "gui"}
    /\ file_type = FT_XianHuan
    /\ \E j \in 1..Len(sheet[1]) : Contains(Str(sheet[1][j]), I_Inpatients)

\* C17 as stated: whenever no worksheet row contains a target fragment, the
\* file's result mapping is empty.
C17_FallbackEmpty ==
    pc = "merge" /\ C17_Fallback => data = EmptyDict

\* C17 amended: whenever no worksheet row contains a target fragment, the
\* file's result mapping is empty and combined_data is not written, except
\* in script 4 and the GUI worker for a prevalence report whose row 0 has a
\* cell containing 同期住院患者人数: the rename to 现患率-同期住院患者人数 is
\* applied after the fallback and makes that column match.
C17_FallbackEmptyUnlessRenamed ==
    pc = "merge" /\ C17_Fallback /\ ~C17_RenamedByFallback =>
        data = EmptyDict /\ combined_data = EmptyDict

\* C17 witness: a worksheet without any target fragment went through the
\* normalizer and the totals-row resolver, and the resolver pass over its
\* columns recorded nothing
C17_Witness ==
    /\ variant = "v4"
    /\ pc = "merge"
    /\ C17_Fallback
    /\ file_type = FT_HuiZong
    /\ Len(df.columns) = 3
    /\ Contains(Str(df.rows[row][1]), M_QuanYuan)
    /\ data = EmptyDict

\* the totals row and cleaned table the shared steps reach on a worksheet,
\* or skipped = TRUE when the file is given up before the indicator loops
C18_Prepared(grid, ft, v) ==
    LET raw == RawFrame(grid)
        c   == clean_dataframe(raw, ft, find_header_row(raw, ft, v), v)
        q   == IF c.ok /\ ~IsEmpty(c.df) THEN find_quanyuan_row(c.df, v)
               ELSE [ok |-> FALSE, row |-> 0]
    IN  [skipped |-> ~q.ok \/ q.row = 0, frame |-> c.df, pos |-> q.row]

\* script 4 on the first n files of the batch: each file's dict is built from
\* empty and merged with dict.update when it is not empty
RECURSIVE C18_Script4(_)
C18_Script4(n) ==
    IF n = 0 THEN EmptyDict
    ELSE LET before == C18_Script4(n - 1)
             p == C18_Prepared(hist[n].sheet, excel_files[n], "v4")
             d == IF hist[n].status = "read_failed" \/ p.skipped THEN EmptyDict
                  ELSE ExtractInto(EmptyDict, p.frame, p.pos, excel_files[n], "v4")
         IN  IF d = EmptyDict THEN before ELSE Update(before, d)

\* the GUI worker on the first n files of the batch: each value is written
\* into combined_data inside the loop over the columns
RECURSIVE C18_Gui(_)
C18_Gui(n) ==
    IF n = 0 THEN EmptyDict
    ELSE LET before == C18_Gui(n - 1)
             p == C18_Prepared(hist[n].sheet, excel_files[n], "gui")
         IN  IF hist[n].status = "read_failed" \/ p.skipped THEN before
             ELSE ExtractInto(before, p.frame, p.pos, excel_files[n], "gui")

\* C18: on the same sequence of worksheets and report types, failed and
\* fruitless files included, script 4 and the GUI worker hold the same
\* combined_data after every file, and build the same ordered final table.
C18_GuiEqualsScript4 ==
    variant \in {"v4", "gui"} /\ pc \in {"read", "write", "done"} =>
        /\ combined_data = C18_Script4(Len(hist))
        /\ combined_data = C18_Gui(Len(hist))
        /\ pc \in {"write", "done"} =>
              /\ final_result = AssembleResult(C18_Script4(Len(hist)), "v4")
              /\ final_result = AssembleResult(C18_Gui(Len(hist)), "gui")

\* C18 witness: the GUI worker ends a batch of a failed read, a good report
\* and a report that replaces one of its values, holding what script 4 holds
C18_Witness ==
    /\ variant = "gui"
    /\ pc = "done"
    /\ message = "saved"
    /\ Len(hist) = 3
    /\ hist[1].status = "read_failed"
    /\ hist[2].data # EmptyDict
    /\ hist[3].data # EmptyDict
    /\ hist[3].after # Update(hist[3].data, hist[2].data)
    /\ hist[3].after # hist[3].data
    /\ combined_data = C18_Script4(3)

\* the canonical names reachable through INDICATOR_MAP and
\* INDICATOR_NAME_MAPPING
C20_ReachableNames ==
    UNION {UNION {{INDICATOR_NAME_MAPPING[INDICATOR_MAP[ft][k]][a] :
                      a \in 1..Len(INDICATOR_NAME_MAPPING[INDICATOR_MAP[ft][k]])} :
                  k \in 1..Len(INDICATOR_MAP[ft])} :
           ft \in DOMAIN INDICATOR_MAP}

\* C20: in script 4 and the GUI worker every canonical name reachable
\* through INDICATOR_MAP and INDICATOR_NAME_MAPPING occurs exactly once in
\* RESULT_ROW_ORDER; hence the keys of the final table are the keys of
\* combined_data, a non-empty combined_data gives a non-empty table, and the
\* artifact written from it has a row for every key.
C20_NothingLost ==
    /\ \A name \in C20_ReachableNames : C7_Count(RESULT_ROW_ORDER, name) = 1
    /\ variant \in {"v4", "gui"} /\ pc \in {"write", "done"} =>
          /\ {final_result[i][1] : i \in 1..Len(final_result)} = DOMAIN combined_data
          /\ Len(final_result) = Cardinality(DOMAIN combined_data)
          /\ combined_data # EmptyDict => final_result # <<>>
          /\ \A a \in 1..Len(artifact) :
                /\ artifact[a] # <<>>
                /\ {artifact[a][i][1] : i \in 1..Len(artifact[a])} = DOMAIN combined_data

\* C20 witness: script 4 wrote an artifact holding both names of
\* 新发感染人数, which stand apart in RESULT_ROW_ORDER, and a prevalence name
C20_Witness ==
    /\ variant = "v4"
    /\ pc = "done"
    /\ Len(artifact) = 1
    /\ {N_NewCases, N_DueReports, N_Infected} \subseteq DOMAIN combined_data
    /\ Len(artifact[1]) = Cardinality(DOMAIN combined_data)

\* the completion messages among the signals the current worker emitted
C11_Completions == {i \in 1..Len(emitted) : emitted[i].kind = "finished"}

\* C11: a run of the worker that ended without having been stopped emitted
\* log messages followed by exactly one completion message, whichever way
\* run() ended (artifact written, no files, no data, exception).
C11_OneCompletionPerRun ==
    (thread = "finished" /\ is_running) => C11_Completions = {Len(emitted)}

\* the fields one side has touched in one of the given modes
C16_Fields(side, modes) ==
    {a[3] : a \in {b \in accesses : b[1] = side /\ b[2] \in modes}}

\* the fields written by one side after the thread was started and read or
\* written by the other side
C16_Shared ==
    (C16_Fields("front", {"write"}) \cap C16_Fields("worker", {"read", "write"}))
    \cup (C16_Fields("worker", {"write"}) \cap C16_Fields("front", {"read", "write"}))

C19_NoStaleDelivery ==
    /\ \A i \in 1..Len(log_output) :
          log_output[i].src \in {"worker", "result", "error"}
             => log_output[i].run \notin cancelled
    /\ output_file \notin cancelled
    /\ open_btn => run_id \notin cancelled

\* the resolver of script 4 and the GUI worker without its last pattern:
\* the pattern loop from pattern k on, then the single-row fallback
RECURSIVE C21_FirstFour(_, _)
C21_FirstFour(d, k) ==
    IF k > Len(patterns) - 1
    THEN IF Len(d.rows) = 1 THEN 1 ELSE 0
    ELSE LET matches == MatchingRows(d, patterns[k])
         IN  IF matches # <<>> THEN matches[1] ELSE C21_FirstFour(d, k + 1)

\* the patterns that match some row of the table the resolver is given
C21_Matched == {k \in 1..Len(patterns) : MatchingRows(df, patterns[k]) # <<>>}

\* C21: the fifth pattern 全院合计 contains the first pattern 全院, so for
\* every table handed to the resolver of script 4 and the GUI worker the
\* pattern loop never gets to select a row by the fifth pattern, and the
\* resolver returns the row (or the "not found") that the resolver with the
\* first four patterns returns.
C21_FifthPatternRedundant ==
    /\ Contains(patterns[5], patterns[1])
    /\ variant \in {"v4", "gui"} /\ pc = "find_row" =>
          /\ 5 \in C21_Matched => 1 \in C21_Matched
          /\ FindByPattern(df, 1) = C21_FirstFour(df, 1)
          /\ find_quanyuan_row(df, variant).ok =>
                find_quanyuan_row(df, variant).row = C21_FirstFour(df, 1)

\* C21 witness: script 4 resolves a table whose second row has the entity
\* value 全院合计 and whose first row matches no pattern; the resolver
\* returns the second row
C21_Witness ==
    /\ variant = "v4"
    /\ pc = "find_row"
    /\ Len(df.rows) >= 2
    /\ EntityValue(df, 2) = M_QuanYuanHeJi
    /\ \A k \in 1..Len(patterns) : ~Contains(EntityValue(df, 1), patterns[k])
    /\ find_quanyuan_row(df, variant) = [ok |-> TRUE, row |-> 2]

====
